---- MODULE Spec2Model ----
(***************************************************************************)
(* patch-finder: the DefaultSpider crawl (start_requests, parse,           *)
(* parse_debian), the alias resolution of generic advisories               *)
(* (determine_aliases), the choice of a parse callable by BaseSpider and   *)
(* the command of patchfinder.py, as a state machine.                      *)
(*                                                                         *)
(* A spider callback is a Python generator: it runs from one yield to the  *)
(* next without interruption, and the engine resumes it to get the next    *)
(* item.  Each resume is one step of the model.                            *)
(***************************************************************************)
EXTENDS Integers, Sequences, FiniteSets

\* ------------------------------------------------------------------ bounds
MaxLimit == 2      \* patch_limit is drawn from 0..MaxLimit
MaxLinks == 2      \* links on one fetched page
MaxRefs == 2       \* vulnerability identifiers scraped from one advisory page
MaxDebian == 2     \* patches the Debian parser returns for one vulnerability
MaxDepth == 1      \* the --depth argument is drawn from 0..MaxDepth
MaxHandleRefs == 1 \* identifiers on a page that also carries links
MaxItems == 2      \* items the xpaths of a URL scrape from one response

\* ----------------------------------------------------------------- helpers
None == "None"

Range(s) == {s[i] : i \in 1..Len(s)}

Contains(s, x) == \E i \in 1..Len(s) : s[i] = x

NoDup(s) == \A i, j \in 1..Len(s) : s[i] = s[j] => i = j

SeqsUpTo(S, n) == UNION {[1..k -> S] : k \in 0..n}

RECURSIVE Filter(_, _)
Filter(s, S) ==
    IF s = <<>> THEN <<>>
    ELSE IF Head(s) \in S THEN <<Head(s)>> \o Filter(Tail(s), S)
         ELSE Filter(Tail(s), S)

\* ------------------------------------------------------- the web, abstracted
\* Links a fetched page may carry.
Links ==
    { "gh/commit/1", "gh/commit/1.patch", "gh/commit/2.patch",
      "gh/issues/7", "bz/show_bug", "fb/x.patch" }

hostname(url) ==
    CASE url \in {"gh/commit/1", "gh/commit/1.patch", "gh/commit/2.patch",
                  "gh/issues/7"} -> "github.com"
      [] url = "bz/show_bug" -> "bugzilla.redhat.com"
      [] url = "fb/x.patch" -> "facebook.com"
      [] url = "deb/CVE-1" -> "security-tracker.debian.org"
      [] OTHER -> "gitweb.gentoo.org"

deny_domains == {"facebook.com", "twitter.com"}

important_domains == {"github.com"}

\* entrypoint.is_patch: the patch link a URL stands for, or None.  A commit
\* page and its .patch form stand for the same patch link.
is_patch(link) ==
    CASE link \in {"gh/commit/1", "gh/commit/1.patch"} -> "gh/commit/1.patch"
      [] link = "gh/commit/2.patch" -> "gh/commit/2.patch"
      [] link = "fb/x.patch" -> "fb/x.patch"
      [] OTHER -> None

startswith_debian(url) == url = "deb/CVE-1"

\* ------------------------------------------------- vulnerability descriptors
SpecificIds == {"CVE-1", "CVE-2"}

GenericIds == {"GLSA-A", "DSA-B"}

VulnIds == SpecificIds \cup GenericIds

kind(id) == IF id \in GenericIds THEN "Generic" ELSE "Specific"

base_url(id) ==
    CASE id = "CVE-1" -> "deb/CVE-1"
      [] id = "CVE-2" -> "nvd/CVE-2"
      [] id = "GLSA-A" -> "glsa/A"
      [] id = "DSA-B" -> "dsa/B"

entrypoint_urls(id) ==
    CASE id = "CVE-1" -> <<"deb/CVE-1", "bz/show_bug">>
      [] id = "CVE-2" -> <<"nvd/CVE-2">>
      [] id = "GLSA-A" -> <<>>
      [] id = "DSA-B" -> <<"dsa/B">>

create_vuln(id) ==
    [vuln_id |-> id, kind |-> kind(id), base_url |-> base_url(id),
     entrypoint_urls |-> entrypoint_urls(id)]

\* --------------------------------------------------------------------- state
VARIABLES
    vuln,              \* the run's root vulnerability (kwargs 'vuln')
    patch_limit,       \* DefaultSpider.patch_limit
    started,           \* start_requests has run
    patches,           \* DefaultSpider.patches, a list
    items,             \* the patch_link of each Patch item the run has yielded
    cves,              \* resolved_aliases: the aliases found, in order
    pending_generic,   \* generic advisories already requested
    inflight,          \* requests yielded and not yet answered
    fetches,           \* per identifier: requests for its base_url made by
                       \* the seeding and by alias resolution
    gen,               \* per handler slot: the callback generator running there
    main,              \* patchfinder.py: where the command is, its arguments,
                       \* what spawn_crawler returned and what was printed
    depth,             \* the DEPTH_LIMIT setting, and the depth the depth
                       \* middleware keeps in the meta of requests and responses
    dispatch           \* BaseSpider.parse: the response it was called with,
                       \* the callable chosen for it and what it has yielded

vars ==
    <<vuln, patch_limit, started, patches, items, cves, pending_generic,
      inflight, fetches, gen, main, depth, dispatch>>

Slots == {"h1", "h2"}

\* Results a callback yields.
Patch(patch_link, reaching_path) ==
    [type |-> "Patch", url |-> None, patch_link |-> patch_link,
     reaching_path |-> reaching_path, callback |-> None, priority |-> 0]

Request(url, callback, priority) ==
    [type |-> "Request", url |-> url, patch_link |-> None,
     reaching_path |-> None, callback |-> callback, priority |-> priority]

NoItem == [type |-> "NoItem"]

Idle ==
    [pc |-> "idle", kind |-> None, url |-> None, page |-> <<>>, todo |-> <<>>,
     first |-> FALSE, again |-> FALSE, out |-> <<>>,
     pre |-> [patches |-> 0, cves |-> 0, pending |-> {}]]

\* What a call finds when it starts.  patches and cves only grow at their end,
\* so their lengths tell what they held.
Snapshot ==
    [patches |-> Len(patches), cves |-> Len(cves), pending |-> pending_generic]

\* The determine_aliases call now made in slot h repeats the call before it,
\* on the same page content.
Again(h, cb, page) ==
    /\ cb = "determine_aliases"
    /\ gen[h].pc = "done" /\ gen[h].kind = cb /\ gen[h].page = page

\* The command's arguments; deny_domains and imp_domains are as configured.
Args(vuln_id, d, limit) ==
    [vuln_id |-> vuln_id, depth |-> d, patch_limit |-> limit]

\* The command while process.start() runs the crawl of the spider made for
\* vuln_id.
Crawling(vuln_id, d, limit) ==
    [pc |-> "crawling", args |-> Args(vuln_id, d, limit),
     returned |-> None, printed |-> None]

\* DEPTH_LIMIT d with no request made yet.  With DEPTH_LIMIT 0 the depth
\* middleware imposes no limit.
DepthSetting(d) ==
    [limit |-> d, req |-> [r \in {} |-> 0], page |-> [h \in Slots |-> 0]]

\* BaseSpider.parse was not called yet.
NotCalled ==
    [pc |-> "idle", by_url |-> None, response |-> None, callable |-> None,
     first |-> FALSE, todo |-> <<>>, out |-> <<>>, raised |-> FALSE]

\* The spider as __init__ leaves it, but for vuln and patch_limit.
Constructed ==
    /\ dispatch = NotCalled
    /\ started = FALSE
    /\ patches = <<>>
    /\ items = <<>>
    /\ cves = <<>>
    /\ pending_generic = {}
    /\ inflight = {}
    /\ fetches = [id \in VulnIds |-> 0]
    /\ gen = [h \in Slots |-> Idle]

Init ==
    /\ vuln \in {create_vuln(id) : id \in VulnIds}
    /\ patch_limit \in 0..MaxLimit
    /\ Constructed
    /\ main = Crawling(vuln.vuln_id, 0, patch_limit)
    /\ depth = DepthSetting(0)

\* ------------------------------------------------------------ start_requests
\* start_request with the tracker's branch left out.
start_request_parse_only(url) == Request(url, "parse", 0)

start_request(url) ==
    IF startswith_debian(url) THEN Request(url, "parse_debian", 0)
    ELSE Request(url, "parse", 0)

start_requests(start_urls) ==
    [i \in 1..Len(start_urls) |-> start_request(start_urls[i])]

\* How many of the requests rs ask for the base URL of identifier id.
BaseFetches(rs, id) ==
    Cardinality({i \in 1..Len(rs) : rs[i].url = base_url(id)})

StartRequests(h) ==
    /\ ~started
    /\ LET rs == start_requests(vuln.entrypoint_urls)
       IN /\ inflight' = inflight \cup Range(rs)
          /\ fetches' = [id \in VulnIds |->
                           IF id = vuln.vuln_id
                           THEN fetches[id] + BaseFetches(rs, id)
                           ELSE fetches[id]]
          /\ gen' = [gen EXCEPT ![h] =
                       [Idle EXCEPT !.pc = "done", !.kind = "start_requests",
                                    !.url = vuln.base_url,
                                    !.page = vuln.entrypoint_urls,
                                    !.out = rs, !.pre = Snapshot]]
    /\ started' = TRUE
    /\ UNCHANGED <<dispatch, main, depth, vuln, patch_limit, patches, items, cves, pending_generic>>

\* ----------------------------------------------------- delivery of a response
\* No callback generator is between two yields.
Quiet == \A h \in Slots : gen[h].pc # "running"

\* The links of a fetched page under the xpaths of its URL, in page order.
\* The link extractor reports a link once however often the page repeats it
\* (unique=True), so a page is a sequence of distinct links.
Pages == {p \in SeqsUpTo(Links, MaxLinks) : NoDup(p)}

\* extract_links of an extractor made without deny_domains.
extract_links_all(page) == page

\* LxmlLinkExtractor(deny_domains=...).extract_links: the page's links whose
\* domain is not denied.
extract_links(page) ==
    Filter(page, {l \in Links : hostname(l) \notin deny_domains})

\* The depth in the meta of request r; a request without one, such as a start
\* request, gets a response of depth 0.
depth_of(r) == IF r \in DOMAIN depth.req THEN depth.req[r] ELSE 0

\* The response to r carries r's meta to the callback called in slot h.
Deliver(h, r) ==
    [depth EXCEPT !.page[h] = depth_of(r),
                  !.req = [x \in (DOMAIN depth.req) \ {r} |-> depth.req[x]]]

\* The response to request r arrives with `page` and its callback is called:
\* the generator is created, and runs when first resumed.
Respond(h, r, page, todo) ==
    /\ started
    /\ gen[h].pc # "running"
    /\ r \in inflight
    /\ inflight' = inflight \ {r}
    /\ gen' = [gen EXCEPT ![h] =
                 [pc |-> "running", kind |-> r.callback, url |-> r.url,
                  page |-> page, todo |-> todo, first |-> TRUE,
                  again |-> Again(h, r.callback, page), out |-> <<>>,
                  pre |-> Snapshot]]
    /\ depth' = Deliver(h, r)
    /\ UNCHANGED <<dispatch, main, vuln, patch_limit, started, patches, items, cves,
                   pending_generic, fetches>>

\* --------------------------------------------------------------------- parse
\* domain_priority that prefers no domain.
domain_priority_none(url) == 0

domain_priority(url) == IF hostname(url) \in important_domains THEN 1 ELSE 0

\* parse_link taking a patch whatever the count: `if patch_link:`.
parse_link_no_limit(link, url, ps) ==
    LET patch_link == is_patch(link)
    IN IF patch_link # None
       THEN IF ~Contains(ps, patch_link) THEN Patch(patch_link, url)
            ELSE NoItem
       ELSE IF Len(ps) < patch_limit
            THEN Request(link, "parse", domain_priority(link))
            ELSE NoItem

\* parse_link following whatever the count: `else:` for the `elif`.
parse_link_follow_always(link, url, ps) ==
    LET patch_link == is_patch(link)
    IN IF patch_link # None /\ Len(ps) < patch_limit
       THEN IF ~Contains(ps, patch_link) THEN Patch(patch_link, url)
            ELSE NoItem
       ELSE Request(link, "parse", domain_priority(link))

\* parse_link giving the link itself as the path that reached the patch.
parse_link_path_is_link(link, url, ps) ==
    LET patch_link == is_patch(link)
    IN IF patch_link # None /\ Len(ps) < patch_limit
       THEN IF ~Contains(ps, patch_link) THEN Patch(patch_link, link)
            ELSE NoItem
       ELSE IF Len(ps) < patch_limit
            THEN Request(link, "parse", domain_priority(link))
            ELSE NoItem

\* parse_link with the membership test in the first condition, so that a
\* recorded patch link falls through to the `elif`.
parse_link_fall_through(link, url, ps) ==
    LET patch_link == is_patch(link)
    IN IF patch_link # None /\ Len(ps) < patch_limit
          /\ ~Contains(ps, patch_link)
       THEN Patch(patch_link, url)
       ELSE IF Len(ps) < patch_limit
            THEN Request(link, "parse", domain_priority(link))
            ELSE NoItem

\* parse_link with the limit itself still below the limit: `<=` for `<`.
parse_link_limit_inclusive(link, url, ps) ==
    LET patch_link == is_patch(link)
    IN IF patch_link # None /\ Len(ps) <= patch_limit
       THEN IF ~Contains(ps, patch_link) THEN Patch(patch_link, url)
            ELSE NoItem
       ELSE IF Len(ps) <= patch_limit
            THEN Request(link, "parse", domain_priority(link))
            ELSE NoItem

\* The body of parse's loop for one link, with ps the patches so far: what it
\* yields, or NoItem.
parse_link(link, url, ps) ==
    LET patch_link == is_patch(link)
    IN IF patch_link # None /\ Len(ps) < patch_limit
       THEN IF ~Contains(ps, patch_link) THEN Patch(patch_link, url)
            ELSE NoItem
       ELSE IF Len(ps) < patch_limit
            THEN Request(link, "parse", domain_priority(link))
            ELSE NoItem

\* parse resumed with the links `todo` left: it runs to its next yield.
RECURSIVE parse_next(_, _, _)
parse_next(todo, url, ps) ==
    IF todo = <<>> THEN [todo |-> <<>>, res |-> NoItem]
    ELSE LET res == parse_link(Head(todo), url, ps)
         IN IF res.type = "NoItem" THEN parse_next(Tail(todo), url, ps)
            ELSE [todo |-> Tail(todo), res |-> res]

\* What a resumed generator's step does to the generator record.
Yielded(g, r) ==
    IF r.res.type = "NoItem"
    THEN [g EXCEPT !.pc = "done", !.todo = <<>>, !.first = FALSE]
    ELSE [g EXCEPT !.todo = r.todo, !.first = FALSE,
                   !.out = Append(g.out, r.res)]

\* parse is called with the response to one of its requests, a page of
\* `pages`.
ParseCall(h, pages) ==
    \E r \in inflight, page \in pages :
        /\ r.callback = "parse"
        /\ Respond(h, r, page, extract_links(page))

ParseStart(h) == Quiet /\ ParseCall(h, Pages)

ParseStep(h) ==
    /\ gen[h].pc = "running"
    /\ gen[h].kind = "parse"
    /\ LET r == parse_next(gen[h].todo, gen[h].url, patches)
       IN /\ gen' = [gen EXCEPT ![h] = Yielded(gen[h], r)]
          /\ patches' = IF r.res.type = "Patch"
                        THEN Append(patches, r.res.patch_link) ELSE patches
          /\ items' = IF r.res.type = "Patch"
                      THEN Append(items, r.res.patch_link) ELSE items
          /\ inflight' = IF r.res.type = "Request"
                         THEN inflight \cup {r.res} ELSE inflight
    /\ UNCHANGED <<dispatch, main, depth, vuln, patch_limit, started, cves, pending_generic, fetches>>

\* -------------------------------------------------------------- parse_debian
\* DebianParser.parse(vuln_id): the patches the Debian tracker's data holds
\* for the vulnerability, each once.
DebianPatches == {"gh/commit/1.patch", "gh/commit/2.patch"}

DebianResults ==
    {s \in SeqsUpTo(DebianPatches, MaxDebian) : NoDup(s)}

\* debian_item without the check of the count.
debian_item_no_limit(patch_link, url, ps) == Patch(patch_link, url)

\* The body of parse_debian's loop for one patch of the parser.
debian_item(patch_link, url, ps) ==
    IF Len(ps) < patch_limit THEN Patch(patch_link, url) ELSE NoItem

RECURSIVE debian_next(_, _, _)
debian_next(todo, url, ps) ==
    IF todo = <<>> THEN [todo |-> <<>>, res |-> NoItem]
    ELSE LET res == debian_item(Head(todo), url, ps)
         IN IF res.type = "NoItem" THEN debian_next(Tail(todo), url, ps)
            ELSE [todo |-> Tail(todo), res |-> res]

\* parse_debian is called with the response to the tracker's request.
DebianCall(h) ==
    \E r \in inflight, found \in DebianResults :
        /\ r.callback = "parse_debian"
        /\ Respond(h, r, found, found)

DebianStart(h) == Quiet /\ DebianCall(h)

DebianStep(h) ==
    /\ gen[h].pc = "running"
    /\ gen[h].kind = "parse_debian"
    /\ LET r == debian_next(gen[h].todo, gen[h].url, patches)
       IN /\ gen' = [gen EXCEPT ![h] = Yielded(gen[h], r)]
          /\ patches' = IF r.res.type = "Patch"
                        THEN Append(patches, r.res.patch_link) ELSE patches
          /\ items' = IF r.res.type = "Patch"
                      THEN Append(items, r.res.patch_link) ELSE items
    /\ UNCHANGED <<dispatch, main, depth, vuln, patch_limit, started, cves, pending_generic,
                   inflight, fetches>>

\* --------------------------------------------------------------------- depth
\* The depth middleware on a request of depth d that a callback yields: with
\* DEPTH_LIMIT 0 every request passes, otherwise those of depth <= limit.
depth_passes(d, limit) == limit = 0 \/ d <= limit

\* Request r of depth d is scheduled; a request already waiting is not
\* scheduled again.
Schedule(r, d) ==
    IF r \in inflight THEN depth
    ELSE [depth EXCEPT !.req = [x \in (DOMAIN depth.req) \cup {r} |->
                                  IF x = r THEN d ELSE depth.req[x]]]

\* Responses deeper than this are left unanswered.
DepthCap == MaxDepth

DepthParseCall(h) ==
    \E r \in inflight, page \in Pages :
        /\ r.callback = "parse"
        /\ depth_of(r) <= DepthCap
        /\ Respond(h, r, page, extract_links(page))

\* parse resumed, and what it yields taken through the depth middleware: a
\* Request gets the depth of the response plus one and is scheduled if it
\* passes; a Patch passes as it is.
DepthParseStep(h) ==
    /\ gen[h].pc = "running"
    /\ gen[h].kind = "parse"
    /\ LET r == parse_next(gen[h].todo, gen[h].url, patches)
           d == depth.page[h] + 1
           kept == r.res.type = "Request" /\ depth_passes(d, depth.limit)
       IN /\ gen' = [gen EXCEPT ![h] = Yielded(gen[h], r)]
          /\ patches' = IF r.res.type = "Patch"
                        THEN Append(patches, r.res.patch_link) ELSE patches
          /\ items' = IF r.res.type = "Patch"
                      THEN Append(items, r.res.patch_link) ELSE items
          /\ inflight' = IF kept THEN inflight \cup {r.res} ELSE inflight
          /\ depth' = IF kept THEN Schedule(r.res, d) ELSE depth
    /\ UNCHANGED <<dispatch, main, vuln, patch_limit, started, cves, pending_generic,
                   fetches>>

\* --------------------------------------------------------- determine_aliases
\* The identifiers an advisory page may reference.
AliasPages == SeqsUpTo(VulnIds, MaxRefs)

\* add_alias without the look-up of the alias.
add_alias_again(resolved, id) ==
    IF kind(id) = "Specific" THEN Append(resolved, id) ELSE resolved

\* Step 2 for one extracted identifier: a Specific alias not yet resolved is
\* recorded; nothing is requested for it.
add_alias(resolved, id) ==
    IF kind(id) = "Specific" /\ ~Contains(resolved, id)
    THEN Append(resolved, id) ELSE resolved

RECURSIVE add_aliases(_, _)
add_aliases(resolved, ids) ==
    IF ids = <<>> THEN resolved
    ELSE add_aliases(add_alias(resolved, Head(ids)), Tail(ids))

\* generic_request for an identifier of any kind.
generic_request_any_kind(id, pending) ==
    IF id \notin pending
    THEN Request(base_url(id), "determine_aliases", 0) ELSE NoItem

\* generic_request without the look-up in pending_generic.
generic_request_no_pending(id, pending) ==
    IF kind(id) = "Generic"
    THEN Request(base_url(id), "determine_aliases", 0) ELSE NoItem

\* Step 3 for one extracted identifier, with `pending` the advisories
\* requested so far: the request it yields, or NoItem.
generic_request(id, pending) ==
    IF kind(id) = "Generic" /\ id \notin pending
    THEN Request(base_url(id), "determine_aliases", 0) ELSE NoItem

RECURSIVE aliases_next(_, _)
aliases_next(todo, pending) ==
    IF todo = <<>> THEN [todo |-> <<>>, res |-> NoItem, id |-> None]
    ELSE LET res == generic_request(Head(todo), pending)
         IN IF res.type = "NoItem" THEN aliases_next(Tail(todo), pending)
            ELSE [todo |-> Tail(todo), res |-> res, id |-> Head(todo)]

\* A response to a request that alias resolution made is passed back to it,
\* with a page of `pages`.
AliasCall(h, pages) ==
    \E r \in inflight, page \in pages :
        /\ r.callback = "determine_aliases"
        /\ Respond(h, r, page, page)

AliasStart(h) == Quiet /\ AliasCall(h, AliasPages)

\* The page at the root advisory's base URL, one of `pages`, is passed to
\* determine_aliases.
AliasRootCall(h, pages) ==
    /\ started
    /\ vuln.kind = "Generic"
    /\ \E page \in pages :
          /\ gen' = [gen EXCEPT ![h] =
                       [pc |-> "running", kind |-> "determine_aliases",
                        url |-> vuln.base_url, page |-> page, todo |-> page,
                        first |-> TRUE,
                        again |-> Again(h, "determine_aliases", page),
                        out |-> <<>>, pre |-> Snapshot]]
    /\ UNCHANGED <<dispatch, main, depth, vuln, patch_limit, started, patches, items, cves,
                   pending_generic, inflight, fetches>>

AliasStartRoot(h) == Quiet /\ AliasRootCall(h, AliasPages)

\* AliasStep that keeps no record of the advisory it requests.
AliasStep_records_nothing(h) ==
    /\ gen[h].pc = "running"
    /\ gen[h].kind = "determine_aliases"
    /\ LET r == aliases_next(gen[h].todo, pending_generic)
       IN /\ gen' = [gen EXCEPT ![h] = Yielded(gen[h], r)]
          /\ cves' = IF gen[h].first THEN add_aliases(cves, gen[h].page)
                     ELSE cves
          /\ inflight' = IF r.res.type = "Request"
                         THEN inflight \cup {r.res} ELSE inflight
    /\ UNCHANGED <<dispatch, main, depth, vuln, patch_limit, started, patches, items,
                   pending_generic, fetches>>

\* determine_aliases resumed: on its first resume it records the page's
\* aliases (step 2), then it runs to the next request it yields (step 3).
AliasStep(h) ==
    /\ gen[h].pc = "running"
    /\ gen[h].kind = "determine_aliases"
    /\ LET r == aliases_next(gen[h].todo, pending_generic)
       IN /\ gen' = [gen EXCEPT ![h] = Yielded(gen[h], r)]
          /\ cves' = IF gen[h].first THEN add_aliases(cves, gen[h].page)
                     ELSE cves
          /\ pending_generic' = IF r.res.type = "Request"
                                THEN pending_generic \cup {r.id}
                                ELSE pending_generic
          /\ inflight' = IF r.res.type = "Request"
                         THEN inflight \cup {r.res} ELSE inflight
          /\ fetches' = IF r.res.type = "Request"
                        THEN [fetches EXCEPT ![r.id] = @ + 1] ELSE fetches
    /\ UNCHANGED <<dispatch, main, depth, vuln, patch_limit, started, patches, items>>

\* -------------------------------------------------------------------- handle
\* The URLs of vulnerability sources: a page fetched from one is searched for
\* aliases before its links are.
SourceUrls == {base_url(id) : id \in VulnIds}

HandleIds == {"CVE-2", "GLSA-A", "DSA-B"}

HandleLinks == {"gh/commit/1", "gh/issues/7"}

\* A fetched page: the identifiers it references, then its links.
HandlePages ==
    {ids \o links :
        ids \in {s \in SeqsUpTo(HandleIds, MaxHandleRefs) : NoDup(s)},
        links \in {p \in Pages : Range(p) \subseteq HandleLinks}}

\* handle_todo that takes the page's own URL for one of its links.
handle_todo_self_link(url, page) ==
    IF url \in SourceUrls
    THEN Filter(page, VulnIds) \o extract_links(Filter(page, Links)) \o <<url>>
    ELSE extract_links(Filter(page, Links)) \o <<url>>

\* handle_todo that leaves a source page to alias resolution alone.
handle_todo_aliases_only(url, page) ==
    IF url \in SourceUrls THEN Filter(page, VulnIds)
    ELSE extract_links(Filter(page, Links))

\* What handle goes through for a page: on a source page the identifiers,
\* for alias resolution, then the links; on any other page the links only.
handle_todo(url, page) ==
    IF url \in SourceUrls
    THEN Filter(page, VulnIds) \o extract_links(Filter(page, Links))
    ELSE extract_links(Filter(page, Links))

handle_item(x, url, ps, pending) ==
    IF x \in VulnIds THEN generic_request(x, pending)
    ELSE parse_link(x, url, ps)

RECURSIVE handle_next(_, _, _, _)
handle_next(todo, url, ps, pending) ==
    IF todo = <<>> THEN [todo |-> <<>>, res |-> NoItem, id |-> None]
    ELSE LET res == handle_item(Head(todo), url, ps, pending)
         IN IF res.type = "NoItem"
            THEN handle_next(Tail(todo), url, ps, pending)
            ELSE [todo |-> Tail(todo), res |-> res, id |-> Head(todo)]

\* handle is called with the page fetched for a request.
HandleCall(h) ==
    /\ started
    /\ gen[h].pc # "running"
    /\ \E r \in inflight, page \in HandlePages :
          /\ depth_of(r) <= DepthCap
          /\ inflight' = inflight \ {r}
          /\ gen' = [gen EXCEPT ![h] =
                       [pc |-> "running", kind |-> "handle", url |-> r.url,
                        page |-> page, todo |-> handle_todo(r.url, page),
                        first |-> TRUE, again |-> FALSE, out |-> <<>>,
                        pre |-> Snapshot]]
          /\ depth' = Deliver(h, r)
    /\ UNCHANGED <<dispatch, main, vuln, patch_limit, started, patches, items, cves,
                   pending_generic, fetches>>

\* depth_for that counts the fetch of an advisory's page as a step in depth.
depth_for_counting_aliases(id, d) == d + 1

\* The depth of a request made from a page of depth d: a request of alias
\* resolution (for identifier id) starts a new pass at depth 0, a followed
\* link is one deeper than the page.
depth_for(id, d) == IF id \in VulnIds THEN 0 ELSE d + 1

\* handle resumed: on its first resume on a source page the aliases are
\* recorded; then it runs to its next result.  A request of alias resolution
\* is scheduled whatever the depth; a followed link goes through the depth
\* limit.
HandleStep(h) ==
    /\ gen[h].pc = "running"
    /\ gen[h].kind = "handle"
    /\ LET r == handle_next(gen[h].todo, gen[h].url, patches, pending_generic)
           alias == r.res.type = "Request" /\ r.id \in VulnIds
           d == depth_for(r.id, depth.page[h])
           kept == r.res.type = "Request"
                     /\ (alias \/ depth_passes(d, depth.limit))
       IN /\ gen' = [gen EXCEPT ![h] = Yielded(gen[h], r)]
          /\ cves' = IF gen[h].first /\ gen[h].url \in SourceUrls
                     THEN add_aliases(cves, Filter(gen[h].page, VulnIds))
                     ELSE cves
          /\ pending_generic' = IF alias THEN pending_generic \cup {r.id}
                                ELSE pending_generic
          /\ fetches' = IF alias THEN [fetches EXCEPT ![r.id] = @ + 1]
                        ELSE fetches
          /\ patches' = IF r.res.type = "Patch"
                        THEN Append(patches, r.res.patch_link) ELSE patches
          /\ items' = IF r.res.type = "Patch"
                      THEN Append(items, r.res.patch_link) ELSE items
          /\ inflight' = IF kept THEN inflight \cup {r.res} ELSE inflight
          /\ depth' = IF kept THEN Schedule(r.res, d) ELSE depth
    /\ UNCHANGED <<dispatch, main, vuln, patch_limit, started>>

\* ---------------------------------------------------------------- BaseSpider
\* A header value, decoded, as the pieces it is made of.
JsonType == <<"application/json">>

ContentTypes ==
    { JsonType,
      <<"application/json", "; charset=utf-8">>,
      <<"text/html">>,
      <<"text/plain", "; format=", "application/json">> }

\* str.startswith.
startswith(s, prefix) ==
    /\ Len(s) >= Len(prefix)
    /\ SubSeq(s, 1, Len(prefix)) = prefix

\* response.headers: with a Content-Type, or without one.
Headers ==
    {[name \in {} |-> <<>>]}
        \cup {[name \in {"Content-Type"} |-> ct] : ct \in ContentTypes}

\* What the xpaths of a URL may scrape.
ScrapedItems == {"CVE-2015-5370", "CVE-2016-2110"}

\* A response body: a JSON document or an HTML page, with the items its
\* mark-up holds under the xpaths.
Bodies ==
    [format : {"json", "html"}, items : SeqsUpTo(ScrapedItems, MaxItems)]

ResponseUrls == {"rh/cve.json", "nvd/CVE-2"}

Responses == [url : ResponseUrls, headers : Headers, body : Bodies]

\* _callback_by_url of BaseSpider: no URL has a callable of its own.
callback_by_url(response) == None

\* _callback_by_url as a spider class overrides it: the security data API is
\* parsed as JSON whatever its Content-Type says.
callback_by_url_override(response) ==
    IF response.url = "rh/cve.json" THEN "parse_json" ELSE None

\* The _callback_by_url of the spider's class.
ByUrl(class, response) ==
    IF class = "BaseSpider" THEN callback_by_url(response)
    ELSE callback_by_url_override(response)

SpiderClasses == {"BaseSpider", "Override"}

callback_by_content(response) ==
    IF "Content-Type" \notin DOMAIN response.headers THEN None
    ELSE IF startswith(response.headers["Content-Type"], JsonType)
         THEN "parse_json"
         ELSE "parse_default"

\* _callback looking at the content first and at the URL after it.
callback_content_first(class, response) ==
    IF callback_by_content(response) # None
    THEN callback_by_content(response)
    ELSE ByUrl(class, response)

\* _callback: the callable for the URL, or without one the callable for the
\* content.
callback(class, response) ==
    IF ByUrl(class, response) # None THEN ByUrl(class, response)
    ELSE callback_by_content(response)

\* _json_response_to_xml: the response with its JSON body turned into XML;
\* json.loads raises on a body that is no JSON document.
json_response_to_xml(response) ==
    IF response.body.format = "json"
    THEN [raised |-> FALSE, response |-> [response EXCEPT !.body.format = "xml"]]
    ELSE [raised |-> TRUE, response |-> response]

\* _scrape: the items under the xpaths; a body that is no mark-up has none.
scrape(response) ==
    IF response.body.format \in {"html", "xml"} THEN response.body.items
    ELSE <<>>

\* What the parse callable c is to yield for the response, or the error it
\* raises before it yields.
parse_callable(c, response) ==
    IF c = "parse_json"
    THEN LET xml == json_response_to_xml(response)
         IN IF xml.raised
            THEN [raised |-> TRUE, items |-> <<>>]
            ELSE [raised |-> FALSE, items |-> scrape(xml.response)]
    ELSE IF c = "parse_default"
         THEN [raised |-> FALSE, items |-> scrape(response)]
         ELSE [raised |-> FALSE, items |-> <<>>]

\* BaseSpider.parse is called with a response: the generator is created.
BaseParseCall ==
    /\ dispatch.pc # "running"
    /\ \E class \in SpiderClasses, response \in Responses :
          dispatch' = [pc |-> "running", by_url |-> class,
                       response |-> response, callable |-> None,
                       first |-> TRUE, todo |-> <<>>, out |-> <<>>,
                       raised |-> FALSE]
    /\ UNCHANGED <<vuln, patch_limit, started, patches, items, cves,
                   pending_generic, inflight, fetches, gen, main, depth>>

\* The generator is resumed: at the first resume the callable is chosen and
\* started; it runs to its next yield, or to its end.
BaseParseStep ==
    /\ dispatch.pc = "running"
    /\ LET c == IF dispatch.first
                THEN callback(dispatch.by_url, dispatch.response)
                ELSE dispatch.callable
           run == IF dispatch.first
                  THEN parse_callable(c, dispatch.response)
                  ELSE [raised |-> FALSE, items |-> dispatch.todo]
       IN dispatch' =
              IF run.raised \/ run.items = <<>>
              THEN [dispatch EXCEPT !.pc = "done", !.callable = c,
                                    !.first = FALSE, !.todo = <<>>,
                                    !.raised = run.raised]
              ELSE [dispatch EXCEPT !.callable = c, !.first = FALSE,
                                    !.todo = Tail(run.items),
                                    !.out = Append(dispatch.out,
                                                   Head(run.items))]
    /\ UNCHANGED <<vuln, patch_limit, started, patches, items, cves,
                   pending_generic, inflight, fetches, gen, main, depth>>

\* ------------------------------------------------------------ specifications
\* The crawl: the seeding and the two page callbacks of DefaultSpider, one
\* callback at a time, each resumed until it ends.
Next ==
    \/ StartRequests("h1")
    \/ ParseStart("h1")
    \/ ParseStep("h1")
    \/ DebianStart("h1")
    \/ DebianStep("h1")

Spec == Init /\ [][Next]_vars

\* Alias resolution: the seeding and determine_aliases, which alone reads and
\* writes cves, pending_generic and fetches.
NextAlias ==
    \/ StartRequests("h1")
    \/ AliasStartRoot("h1")
    \/ AliasStart("h1")
    \/ AliasStep("h1")

SpecAlias == Init /\ [][NextAlias]_vars

\* Alias resolution as a run schedules it: a generator that was called is
\* resumed until it ends, and the downloader answers every request made.
\* The pages are those of advisories that reference one another, themselves
\* and one vulnerability.
CycleIds == GenericIds \cup {"CVE-2"}

CyclePages == SeqsUpTo(CycleIds, MaxRefs)

NextAliasLive ==
    \/ StartRequests("h1")
    \/ (Quiet /\ AliasRootCall("h1", CyclePages))
    \/ (Quiet /\ AliasCall("h1", CyclePages))
    \/ AliasStep("h1")

SpecAliasLive ==
    /\ Init /\ [][NextAliasLive]_vars
    /\ WF_vars(AliasStep("h1"))
    /\ SF_vars(Quiet /\ AliasCall("h1", CyclePages))

\* The crawl with the callbacks of two responses in hand at once: the engine
\* takes the items of each generator one at a time, so their resumes
\* interleave; between two yields a generator runs alone.
ConcLinks == {"gh/commit/1", "gh/commit/2.patch", "gh/issues/7"}

ConcPages == {p \in Pages : Range(p) \subseteq ConcLinks}

NextConc ==
    \/ StartRequests("h1")
    \/ \E h \in Slots : ParseCall(h, ConcPages)
    \/ \E h \in Slots : ParseStep(h)
    \/ \E h \in Slots : DebianCall(h)
    \/ \E h \in Slots : DebianStep(h)

SpecConc == Init /\ [][NextConc]_vars

\* The crawl with one callback in hand at a time, over pages whose links are
\* a patch in two forms, a second patch and a link to follow: requests made
\* before the limit was reached are answered after it.
NextLate ==
    \/ StartRequests("h1")
    \/ (Quiet /\ ParseCall("h1", ConcPages))
    \/ ParseStep("h1")
    \/ DebianStart("h1")
    \/ DebianStep("h1")

SpecLate == Init /\ [][NextLate]_vars

\* The crawl of parse under a DEPTH_LIMIT of 0..MaxDepth.
InitDepth ==
    /\ vuln \in {create_vuln(id) : id \in VulnIds}
    /\ patch_limit \in 0..MaxLimit
    /\ Constructed
    /\ \E d \in 0..MaxDepth :
          /\ main = Crawling(vuln.vuln_id, d, patch_limit)
          /\ depth = DepthSetting(d)

NextDepth ==
    \/ StartRequests("h1")
    \/ (Quiet /\ DepthParseCall("h1"))
    \/ DepthParseStep("h1")

SpecDepth == InitDepth /\ [][NextDepth]_vars

\* The run as the driver composes it: every fetched page goes to handle.
NextHandle ==
    \/ StartRequests("h1")
    \/ (Quiet /\ HandleCall("h1"))
    \/ HandleStep("h1")

\* The roots all of whose start requests are for callback parse.
HandleRoots ==
    {id \in VulnIds :
        \A i \in 1..Len(entrypoint_urls(id)) :
            ~startswith_debian(entrypoint_urls(id)[i])}

InitHandle ==
    /\ vuln \in {create_vuln(id) : id \in HandleRoots}
    /\ patch_limit \in 0..MaxLimit
    /\ Constructed
    /\ \E d \in 0..MaxDepth :
          /\ main = Crawling(vuln.vuln_id, d, patch_limit)
          /\ depth = DepthSetting(d)

SpecHandle == InitHandle /\ [][NextHandle]_vars

\* BaseSpider.parse called with one response after another.
NextDispatch ==
    \/ BaseParseCall
    \/ BaseParseStep

SpecDispatch == Init /\ [][NextDispatch]_vars

\* ------------------------------------------------------------- patchfinder.py
\* An identifier of no family context.create_vuln knows.
UnknownIds == {"XYZ-0"}

\* No vulnerability: what create_vuln returns for an unknown identifier.
NoVuln ==
    [vuln_id |-> None, kind |-> None, base_url |-> None,
     entrypoint_urls |-> <<>>]

create_vuln_or_none(id) == IF id \in VulnIds THEN create_vuln(id) ELSE NoVuln

CrawlingCompleted == "Crawling completed."

CantRecognize == "Can't recognize that vulnerability."

\* settings.DEPTH_LIMIT, the default of --depth.
DEPTH_LIMIT == 1

\* The command is started: the arguments are parsed, no spider exists yet.
\* The depth is left at its default.
InitMain ==
    /\ \E id \in VulnIds \cup UnknownIds, limit \in 0..MaxLimit :
          main = [pc |-> "start", args |-> Args(id, DEPTH_LIMIT, limit),
                  returned |-> None, printed |-> None]
    /\ vuln = NoVuln
    /\ patch_limit = 0
    /\ Constructed
    /\ depth = DepthSetting(0)

\* spawn_crawler that goes on whatever create_vuln returned.
SpawnCrawler_no_check ==
    /\ main.pc = "start"
    /\ vuln' = create_vuln_or_none(main.args.vuln_id)
    /\ patch_limit' = main.args.patch_limit
    /\ depth' = DepthSetting(main.args.depth)
    /\ main' = [main EXCEPT !.pc = "crawling"]
    /\ UNCHANGED <<dispatch, started, patches, items, cves, pending_generic, inflight,
                   fetches, gen>>

\* spawn_crawler up to process.start(): without a vulnerability it returns
\* False; with one, the process is made with DEPTH_LIMIT = args.depth and the
\* spider with the vulnerability and the patch limit.
SpawnCrawler ==
    /\ main.pc = "start"
    /\ LET v == create_vuln_or_none(main.args.vuln_id)
       IN IF v = NoVuln
          THEN /\ main' = [main EXCEPT !.pc = "returned", !.returned = FALSE]
               /\ UNCHANGED <<vuln, patch_limit, depth>>
          ELSE /\ vuln' = v
               /\ patch_limit' = main.args.patch_limit
               /\ depth' = DepthSetting(main.args.depth)
               /\ main' = [main EXCEPT !.pc = "crawling"]
    /\ UNCHANGED <<dispatch, started, patches, items, cves, pending_generic, inflight,
                   fetches, gen>>

\* process.start() returns when the crawl has nothing left to do, and
\* spawn_crawler returns True.
CrawlEnds ==
    /\ main.pc = "crawling"
    /\ started /\ Quiet /\ inflight = {}
    /\ main' = [main EXCEPT !.pc = "returned", !.returned = TRUE]
    /\ UNCHANGED <<dispatch, vuln, patch_limit, started, patches, items, cves,
                   pending_generic, inflight, fetches, gen, depth>>

\* __main__ prints by what spawn_crawler returned.
PrintReturn ==
    /\ main.pc = "returned"
    /\ main' = [main EXCEPT !.pc = "exit",
                            !.printed = IF main.returned THEN CrawlingCompleted
                                        ELSE CantRecognize]
    /\ UNCHANGED <<dispatch, vuln, patch_limit, started, patches, items, cves,
                   pending_generic, inflight, fetches, gen, depth>>

\* The command from its start to its exit; the crawl is that of Spec.
NextMain ==
    \/ SpawnCrawler
    \/ (main.pc = "crawling" /\ StartRequests("h1"))
    \/ (main.pc = "crawling" /\ ParseStart("h1"))
    \/ (main.pc = "crawling" /\ ParseStep("h1"))
    \/ (main.pc = "crawling" /\ DebianStart("h1"))
    \/ (main.pc = "crawling" /\ DebianStep("h1"))
    \/ CrawlEnds
    \/ PrintReturn

SpecMain == InitMain /\ [][NextMain]_vars

\* -------------------------------------------------------------------- claims
\* The call made in slot h1, running or ended.
call == gen["h1"]

Ended(cb) == call.pc = "done" /\ call.kind = cb

CountOf(s, type) == Cardinality({i \in 1..Len(s) : s[i].type = type})

\* C1: the number of recorded patches never exceeds patch_limit, whatever
\* parse and parse_debian calls were made and resumed so far.
C1_PatchCountWithinLimit == Len(patches) <= patch_limit

\* The limit is reached and parse_debian left out a patch the parser held.
C1_Witness ==
    /\ Ended("parse_debian")
    /\ patch_limit > 0
    /\ Len(patches) = patch_limit
    /\ Len(call.out) < Len(call.page)

\* C2: no two Patch items of a run carry the same patch_link.
C2_NoDuplicatePatchLink == NoDup(items)

\* A step that yields a Request from a page callback.
YieldsRequest ==
    \E h \in Slots :
        /\ gen'[h].kind \in {"parse", "parse_debian"}
        /\ Len(gen'[h].out) = Len(gen[h].out) + 1
        /\ gen'[h].out[Len(gen'[h].out)].type = "Request"

\* C3: from a state in which patch_count >= patch_limit, no step of a page
\* callback yields a Request, be it for the page in hand or for a later one.
C3_NoRequestAfterLimit ==
    [][Len(patches) >= patch_limit => ~YieldsRequest]_vars

\* A page with a link to follow, handled after the limit was reached, gave
\* nothing.
C3_Witness ==
    /\ Ended("parse")
    /\ patch_limit > 0
    /\ call.pre.patches >= patch_limit
    /\ \E i \in 1..Len(call.page) :
          /\ is_patch(call.page[i]) = None
          /\ hostname(call.page[i]) \notin deny_domains
    /\ call.out = <<>>

\* The patch links a page offers: those its allowed links stand for.
Offered(page) == {is_patch(l) : l \in Range(extract_links(page))} \ {None}

\* A parse call that started from an empty crawl state has ended, on a page
\* offering at least patch_limit patch links.
SinglePage ==
    /\ Ended("parse")
    /\ call.pre.patches = 0
    /\ Cardinality(Offered(call.page)) >= patch_limit

\* C4, as claimed: such a page yields exactly patch_limit results in total.
C4_ExactlyLimitResults == SinglePage => Len(call.out) = patch_limit

\* The links of s before position i stand for fewer than n patch links.
FewerBefore(s, i, n) ==
    Cardinality({is_patch(s[j]) : j \in 1..(i - 1)} \ {None}) < n

\* The links of a page that are followed: those that are no patch link and
\* come before the patch link that reaches the limit.
Followed(page) ==
    LET s == extract_links(page)
    IN {i \in 1..Len(s) :
          is_patch(s[i]) = None /\ FewerBefore(s, i, patch_limit)}

\* C4, amended: such a page yields exactly patch_limit Patch items, and a
\* Request for each link that is no patch link and comes before the patch
\* link that reaches the limit; with patch links only, patch_limit results.
C4_ExactlyLimitPatches ==
    SinglePage =>
        /\ CountOf(call.out, "Patch") = patch_limit
        /\ CountOf(call.out, "Request") = Cardinality(Followed(call.page))
        /\ Len(call.out) = patch_limit + Cardinality(Followed(call.page))

\* Such a page with a link to follow ahead of its patch link: one result
\* more than the limit.
C4_Witness ==
    /\ SinglePage
    /\ patch_limit > 0
    /\ Len(call.out) > patch_limit

\* The seeding has just run.
Seeded == call.kind = "start_requests"

\* C5: for a Generic root the seeding yields exactly one request, for the
\* root's base_url.
C5_GenericSeedsBaseUrl ==
    (Seeded /\ vuln.kind = "Generic") =>
        /\ Len(call.out) = 1
        /\ call.out[1].url = vuln.base_url

\* C6: for a Specific root the seeding yields one request per entrypoint URL,
\* in order, the Debian tracker's URL for parse_debian and any other for
\* parse, and no page is handled before it.
C6_SpecificSeedsEntrypoints ==
    /\ ~started => (inflight = {} /\ \A h \in Slots : gen[h].pc = "idle")
    /\ (Seeded /\ vuln.kind = "Specific") =>
          /\ Len(call.out) = Len(vuln.entrypoint_urls)
          /\ \A i \in 1..Len(call.out) :
                /\ call.out[i].type = "Request"
                /\ call.out[i].url = vuln.entrypoint_urls[i]
                /\ call.out[i].callback =
                      IF startswith_debian(vuln.entrypoint_urls[i])
                      THEN "parse_debian" ELSE "parse"
          /\ inflight = Range(call.out)

\* The seeding of a Specific root with two entrypoints, one the tracker's.
C6_Witness ==
    /\ Seeded
    /\ vuln.kind = "Specific"
    /\ Len(call.out) = 2
    /\ \E i \in 1..2 : call.out[i].callback = "parse_debian"

\* The identifiers of a kind that a page references.
Referenced(page, k) == {id \in Range(page) : kind(id) = k}

BaseUrls(ids) == {base_url(id) : id \in ids}

Urls(out) == {out[i].url : i \in 1..Len(out)}

\* C7: a determine_aliases call that repeats the call before it, on the same
\* page content, leaves resolved_aliases as it was and yields nothing; no
\* call yields a request for an advisory that was in pending_generic when it
\* started, and no alias is ever recorded twice.
C7_SecondCallChangesNothing ==
    /\ NoDup(cves)
    /\ call.kind = "determine_aliases" =>
          /\ Urls(call.out) \cap BaseUrls(call.pre.pending) = {}
          /\ (call.pc = "done" /\ call.again) =>
                /\ Len(cves) = call.pre.cves
                /\ call.out = <<>>

\* The second call in a row on a page naming an alias and an advisory.
C7_Witness ==
    /\ Ended("determine_aliases")
    /\ call.again
    /\ Referenced(call.page, "Specific") # {}
    /\ Referenced(call.page, "Generic") # {}

\* C8: over a run, at most one request is made for the base_url of any one
\* vulnerability identifier, the seeding's requests counted.
C8_OneFetchPerIdentifier == \A id \in VulnIds : fetches[id] <= 1

NewGeneric == Referenced(call.page, "Generic") \ call.pre.pending

\* C10: a determine_aliases call yields exactly one request per referenced
\* Generic advisory that was not in pending_generic, for its base_url, and
\* puts it in pending_generic; a page of Generic advisories only leaves
\* resolved_aliases as it was.
C10_OneRequestPerNewGeneric ==
    Ended("determine_aliases") =>
        /\ Len(call.out) = Cardinality(NewGeneric)
        /\ Urls(call.out) = BaseUrls(NewGeneric)
        /\ \A i \in 1..Len(call.out) :
              call.out[i].type = "Request" /\ call.out[i] \in inflight
        /\ pending_generic =
              call.pre.pending \cup Referenced(call.page, "Generic")
        /\ Referenced(call.page, "Specific") = {} => Len(cves) = call.pre.cves

\* The first call of a run, on a page of two Generic advisories: two
\* requests and no alias.
C10_Witness ==
    /\ Ended("determine_aliases")
    /\ call.pre.pending = {}
    /\ Cardinality(Referenced(call.page, "Generic")) = 2
    /\ Len(call.out) = 2
    /\ cves = <<>>

\* The requests of alias resolution not yet answered.
ResolutionRequests == {r \in inflight : r.callback = "determine_aliases"}

\* C11: alias resolution ends, whatever advisories reference each other or
\* themselves: every request determine_aliases yields puts a new advisory in
\* pending_generic, and when every request is answered the run comes to have
\* no resolution request left, for good.
C11_AliasResolutionEnds ==
    /\ [][ResolutionRequests' \ ResolutionRequests # {}
            => (pending_generic \subseteq pending_generic'
                /\ pending_generic' # pending_generic)]_vars
    /\ <>[](ResolutionRequests = {})

\* The page of a requested advisory references that advisory itself: the
\* call ends with nothing yielded and no request left.
C11_Witness ==
    /\ Ended("determine_aliases")
    /\ \E id \in GenericIds :
          /\ call.url = base_url(id)
          /\ id \in Range(call.page)
          /\ id \in call.pre.pending
    /\ call.out = <<>>
    /\ ResolutionRequests = {}

Denied(link) == hostname(link) \in deny_domains

\* The patch links that only denied links of a page stand for.
DeniedPatches(page) ==
    {is_patch(l) : l \in {k \in Range(page) : Denied(k)}}
        \ ({None} \cup Offered(page))

\* C12: a link on a denied domain gives no Patch and no Request, also when
\* it is a patch link and the limit is not reached; a page of denied links
\* only yields nothing and leaves the recorded patches as they were.
C12_DeniedLinkYieldsNothing ==
    call.kind = "parse" =>
        /\ \A i \in 1..Len(call.out) :
              /\ call.out[i].type = "Patch" =>
                    call.out[i].patch_link \notin DeniedPatches(call.page)
              /\ call.out[i].type = "Request" => ~Denied(call.out[i].url)
        /\ \A i \in (call.pre.patches + 1)..Len(patches) :
              patches[i] \notin DeniedPatches(call.page)
        /\ (call.pc = "done" /\ \A l \in Range(call.page) : Denied(l)) =>
              /\ call.out = <<>>
              /\ Len(patches) = call.pre.patches

\* A page whose only link is a patch link on a denied domain, handled below
\* the limit: nothing came of it.
C12_Witness ==
    /\ Ended("parse")
    /\ call.page = <<"fb/x.patch">>
    /\ Len(patches) < patch_limit
    /\ call.out = <<>>

\* C13: a Request that parse yields has priority 1 when the link's domain is
\* in important_domains and priority 0 when it is not, and no other priority.
C13_PriorityByDomain ==
    call.kind = "parse" =>
        \A i \in 1..Len(call.out) :
            call.out[i].type = "Request" =>
                /\ call.out[i].priority \in {0, 1}
                /\ call.out[i].priority = 1
                      <=> hostname(call.out[i].url) \in important_domains

\* One page gave a request of each priority.
C13_Witness ==
    /\ Ended("parse")
    /\ \E i, j \in 1..Len(call.out) :
          /\ call.out[i].type = "Request" /\ call.out[i].priority = 1
          /\ call.out[j].type = "Request" /\ call.out[j].priority = 0

\* The allowed links of a page that are no patch links.
Plain(page) == {l \in Range(extract_links(page)) : is_patch(l) = None}

\* A parse call has ended with the count still below the limit, on a page
\* that has patch links and other links among its allowed links.
MixedPage ==
    /\ Ended("parse")
    /\ Len(patches) < patch_limit
    /\ Offered(call.page) # {}
    /\ Plain(call.page) # {}

\* The patch links recorded before the call started.
RecordedBefore == {patches[i] : i \in 1..call.pre.patches}

PatchItems(out) == {i \in 1..Len(out) : out[i].type = "Patch"}

RequestItems(out) == {i \in 1..Len(out) : out[i].type = "Request"}

\* What C14 says of the requests and of each Patch of such a page: a Request,
\* of callback parse, for each allowed link that is no patch link, and each
\* Patch reached from the page's URL.
RestOfMixedPage ==
    /\ \A i \in PatchItems(call.out) : call.out[i].reaching_path = call.url
    /\ {call.out[i].url : i \in RequestItems(call.out)} = Plain(call.page)
    /\ Cardinality(RequestItems(call.out)) = Cardinality(Plain(call.page))
    /\ \A i \in RequestItems(call.out) : call.out[i].callback = "parse"

\* C14, as claimed: such a page yields exactly one Patch per patch link it
\* offers, and a Request per other allowed link.
C14_PatchPerPatchLink ==
    MixedPage =>
        /\ {call.out[i].patch_link : i \in PatchItems(call.out)}
              = Offered(call.page)
        /\ Cardinality(PatchItems(call.out)) = Cardinality(Offered(call.page))
        /\ RestOfMixedPage

\* C14, amended: such a page yields exactly one Patch per patch link it
\* offers that was not recorded before, with patch_link the classified link
\* and reaching_path the page's URL, and a Request per other allowed link.
C14_PatchPerNewPatchLink ==
    MixedPage =>
        /\ {call.out[i].patch_link : i \in PatchItems(call.out)}
              = Offered(call.page) \ RecordedBefore
        /\ Cardinality(PatchItems(call.out))
              = Cardinality(Offered(call.page) \ RecordedBefore)
        /\ RestOfMixedPage

\* Such a page, reached by following a link, gave a Patch and a Request.
C14_Witness ==
    /\ MixedPage
    /\ call.url \notin Range(vuln.entrypoint_urls)
    /\ PatchItems(call.out) # {}
    /\ RequestItems(call.out) # {}

\* C15: with an identifier create_vuln does not know, no crawl is started and
\* no request is made; spawn_crawler returns False, and what is printed is
\* the message that the vulnerability is not recognized, never the message
\* of a completed crawl.
C15_UnknownIdentifierEndsRun ==
    main.args.vuln_id \notin VulnIds =>
        /\ main.pc \in {"start", "returned", "exit"}
        /\ ~started /\ inflight = {}
        /\ \A h \in Slots : gen[h] = Idle
        /\ \A id \in VulnIds : fetches[id] = 0
        /\ main.pc \in {"returned", "exit"} => main.returned = FALSE
        /\ main.printed \in {None, CantRecognize}
        /\ main.pc = "exit" => main.printed = CantRecognize

\* The command has exited on an unknown identifier.
C15_Witness ==
    /\ main.args.vuln_id \in UnknownIds
    /\ main.pc = "exit"
    /\ main.returned = FALSE
    /\ main.printed = CantRecognize

\* Two callbacks are between two yields at once.
Interleaved == \A h \in Slots : gen[h].pc = "running"

\* C16: with the handlers of several pages interleaving, the count never
\* exceeds patch_limit and a patch link is counted once and emitted once.
C16_CountedAndEmittedOnce ==
    Interleaved =>
        /\ Len(patches) <= patch_limit
        /\ NoDup(patches)
        /\ \A i, j \in 1..Len(items) : i # j => items[i] # items[j]

\* The depth of the page of the call in slot h1.
current_depth == depth.page["h1"]

\* The requests of the call in slot h1 that were scheduled.
Scheduled ==
    {i \in RequestItems(call.out) :
        /\ call.out[i] \in inflight
        /\ depth_of(call.out[i]) = current_depth + 1}

\* The Patch items parse owes a page: one per offered patch link not yet
\* recorded, as far as the patch limit allows.
PatchesDue ==
    LET new == Cardinality(Offered(call.page) \ RecordedBefore)
        room == patch_limit - call.pre.patches
    IN IF new < room THEN new ELSE IF room > 0 THEN room ELSE 0

\* C17: no request waiting is deeper than DEPTH_LIMIT; a page at depth
\* DEPTH_LIMIT has none of its links followed; and such a page still gives
\* its Patch items.
C17_DepthIsCeiling ==
    /\ \A r \in inflight : depth_of(r) <= depth.limit
    /\ (call.kind = "parse" /\ current_depth = depth.limit) => Scheduled = {}
    /\ (Ended("parse") /\ current_depth = depth.limit) =>
          Cardinality(PatchItems(call.out)) = PatchesDue

\* The identifiers a page references.
Ids(page) == Filter(page, VulnIds)

\* C18: a request of alias resolution starts at depth 0 whatever the depth
\* of the page that made it, so a source page, the root's or one reached
\* through a chain of such requests, is always at depth 0; a request for a
\* followed link is exactly one deeper than the page it was found on.
C18_AliasFetchKeepsDepth ==
    /\ [](\A r \in ResolutionRequests : depth_of(r) = 0)
    /\ []((call.kind = "handle" /\ call.url \in SourceUrls)
            => current_depth = 0)
    /\ [][\A r \in (DOMAIN depth'.req) \ inflight :
             depth'.req[r] = IF r.callback = "determine_aliases" THEN 0
                             ELSE current_depth + 1]_vars

\* The page of an advisory the root's page referenced, reached by a request
\* of alias resolution, had a link followed at depth 1.
C18_Witness ==
    /\ Ended("handle")
    /\ call.url \in BaseUrls(GenericIds) \ {vuln.base_url}
    /\ call.url \notin Range(vuln.entrypoint_urls)
    /\ depth.limit >= 1
    /\ \E i \in RequestItems(call.out) :
          /\ call.out[i].callback = "parse"
          /\ call.out[i] \in inflight
          /\ depth_of(call.out[i]) = 1

\* The requests of alias resolution among a call's results.
AliasItems(out) ==
    {i \in RequestItems(out) : out[i].callback = "determine_aliases"}

\* The results of a finished call that come of the page's links are what
\* link discovery owes the page.
LinkResults ==
    /\ Cardinality(PatchItems(call.out)) = PatchesDue
    /\ \A i \in PatchItems(call.out) :
          /\ call.out[i].patch_link \in Offered(call.page)
          /\ call.out[i].reaching_path = call.url
    /\ {call.out[i].url : i \in RequestItems(call.out) \ AliasItems(call.out)}
          \subseteq Plain(call.page)
    /\ Len(patches) < patch_limit =>
          {call.out[i].url : i \in RequestItems(call.out) \ AliasItems(call.out)}
              = Plain(call.page)

NothingOnPage(page) == Ids(page) = <<>> /\ extract_links(Filter(page, Links)) = <<>>

\* C20: a page with no alias, patch or link to find yields nothing, from
\* alias resolution and from link discovery alike, and leaves the resolved
\* aliases, the pending advisories and the recorded patches as they were.
C20_EmptyPageYieldsNothing ==
    (call.kind = "handle" /\ ~call.first /\ NothingOnPage(call.page)) =>
        /\ call.pc = "done"
        /\ call.out = <<>>
        /\ Len(cves) = call.pre.cves
        /\ pending_generic = call.pre.pending
        /\ Len(patches) = call.pre.patches
        /\ Len(items) = call.pre.patches

\* Such a page came from a vulnerability source, after a patch was recorded.
C20_Witness ==
    /\ Ended("handle")
    /\ NothingOnPage(call.page)
    /\ call.url \in SourceUrls
    /\ call.pre.patches > 0
    /\ call.out = <<>>

\* The call in slot h1 is a page callback that started with the patch limit
\* already reached.
Late ==
    /\ call.kind \in {"parse", "parse_debian"}
    /\ call.pre.patches >= patch_limit

\* C21: a page handled after patch_limit was reached yields no Patch and no
\* Request and leaves the recorded patches and their count as they were,
\* whatever its links are, and its callback ends at its first resume.
C21_LatePageYieldsNothing ==
    Late =>
        /\ call.out = <<>>
        /\ Len(patches) = call.pre.patches
        /\ Len(items) = call.pre.patches
        /\ ~call.first => call.pc = "done"

\* The page of a link followed before the limit was reached arrived after
\* it, with a patch link not yet recorded and a link to follow: nothing came
\* of it.
C21_Witness ==
    /\ Late
    /\ Ended("parse")
    /\ patch_limit > 0
    /\ call.url \notin Range(vuln.entrypoint_urls)
    /\ Offered(call.page) \ Range(patches) # {}
    /\ Plain(call.page) # {}
    /\ call.out = <<>>

\* C22: a link the classifier takes for a patch never yields a Request: the
\* loop body gives a Patch or nothing for it, nothing when its patch link is
\* recorded already and nothing when the limit is reached; no request of a
\* run is for such a link, and no Patch is for a patch link recorded before
\* its page was handled.
C22_PatchLinkNeverFollowed ==
    /\ \A link \in Links :
          is_patch(link) # None =>
              LET res == parse_link(link, call.url, patches)
              IN /\ res.type \in {"Patch", "NoItem"}
                 /\ Contains(patches, is_patch(link)) => res = NoItem
                 /\ Len(patches) >= patch_limit => res = NoItem
    /\ \A r \in inflight : is_patch(r.url) = None
    /\ call.kind = "parse" =>
          /\ \A i \in RequestItems(call.out) :
                is_patch(call.out[i].url) = None
          /\ \A i \in PatchItems(call.out) :
                call.out[i].patch_link \notin RecordedBefore

\* A page whose only links are patch links recorded before, handled below
\* the limit: nothing came of it.
C22_Witness ==
    /\ Ended("parse")
    /\ Len(patches) < patch_limit
    /\ call.page # <<>>
    /\ Offered(call.page) \subseteq RecordedBefore
    /\ Plain(call.page) = {}
    /\ \A l \in Range(call.page) : ~Denied(l)
    /\ call.out = <<>>

\* The recorded patch links are as many as the distinct links among them.
CountIsDistinctLinks == Len(patches) = Cardinality(Range(patches))

\* The recorded patch links are as many as the Patch items yielded so far.
CountIsEmitted == Len(patches) = Len(items)

\* A step never lowers the count, raises it by one for a Patch it yields and
\* by nothing otherwise, and keeps every recorded patch link in its place.
CountGrowsWithPatches ==
    /\ Len(patches') >= Len(patches)
    /\ Len(items') - Len(items) \in {0, 1}
    /\ Len(patches') - Len(patches) = Len(items') - Len(items)
    /\ SubSeq(patches', 1, Len(patches)) = patches

\* C23: in every reachable state patch_count is the number of distinct
\* recorded patch links and the number of Patch items yielded so far; it
\* never decreases, grows by exactly one per yielded Patch, and no recorded
\* patch link is ever removed.
C23_CountMatchesRecordedAndEmitted ==
    /\ [](CountIsDistinctLinks /\ CountIsEmitted)
    /\ [][CountGrowsWithPatches]_vars

\* The callable the spider's class has for the URL of the response in hand.
UrlCallable == ByUrl(dispatch.by_url, dispatch.response)

HasContentType == "Content-Type" \in DOMAIN dispatch.response.headers

\* C24: the callable for a response is the one for its URL when there is
\* one, and otherwise goes by the Content-Type: parse_json when it starts
\* with application/json, parse_default for any other, and none without the
\* header, when the response yields nothing.
C24_UrlThenContentType ==
    (dispatch.pc \in {"running", "done"} /\ ~dispatch.first) =>
        /\ UrlCallable # None => dispatch.callable = UrlCallable
        /\ (UrlCallable = None /\ HasContentType) =>
              dispatch.callable =
                  IF startswith(dispatch.response.headers["Content-Type"],
                                JsonType)
                  THEN "parse_json" ELSE "parse_default"
        /\ (UrlCallable = None /\ ~HasContentType) =>
              /\ dispatch.callable = None
              /\ dispatch.pc = "done"
              /\ dispatch.out = <<>>
              /\ ~dispatch.raised
        /\ (dispatch.pc = "done" /\ ~dispatch.raised) =>
              dispatch.out =
                  parse_callable(dispatch.callable, dispatch.response).items

\* A response whose URL has a callable of its own came with the Content-Type
\* of another: it went to the URL's callable, which gave its items.
C24_Witness ==
    /\ dispatch.pc = "done"
    /\ UrlCallable = "parse_json"
    /\ HasContentType
    /\ callback_by_content(dispatch.response) = "parse_default"
    /\ dispatch.callable = "parse_json"
    /\ Len(dispatch.out) = MaxItems

====
